---------------------------- MODULE Spec2Model ----------------------------
(***************************************************************************)
(* A model of the couplets query pipeline of kabir-ke-dohe-api:            *)
(*   handleRequest -> getData -> loadData, filterBySearch, filterByTags,   *)
(*   filterByPopularity, sortData, paginateData, with toBool.              *)
(*                                                                         *)
(* JavaScript strings are sequences of one-character strings, so that      *)
(* toLowerCase, trim, split and includes are computed, not assumed.        *)
(* JavaScript numbers are carried in half units (field h = 2 * value) with *)
(* a NaN flag, so that page=1.5 or perPage=2.5 are inputs of the model.    *)
(* A local variable of the source is an operator of the values it is       *)
(* computed from (limit(data, perPage), pageNumber(page), ...).            *)
(*                                                                         *)
(* Limits of the model: the only fractions are halves; the letters are     *)
(* ASCII; a record carries its six text fields, its id as a string of      *)
(* digits, the slugs of its tags and its popular flag; data/couplets.json  *)
(* is present and well formed, so loadData does not fail.                  *)
(***************************************************************************)
EXTENDS Integers, Sequences, FiniteSets, TLC

VARIABLES
    file,      \* data/couplets.json: the dataset, a sequence of records
    arr,       \* the array most recently returned by loadData, as the in-place sort left it
    op,        \* the operation the last step applied ("none" before the first)
    args,      \* the arguments of that operation
    ret,       \* what it returned: [threw, val], or the HTTP response
    invoked,   \* handleRequest: whether getData was called for the request
    prev       \* an earlier call, remembered: [set, opts, out, between]

vars == <<file, arr, op, args, ret, invoked, prev>>

----------------------------------------------------------------------------
(* Bounds of the model.                                                    *)

\* longest input collection of the search and sort specifications
MaxRecords == 3
\* longest input collection of the pagination specification
MaxTotal == 12

----------------------------------------------------------------------------
(* Strings.                                                                *)

UpperChars == <<"A","B","C","D","E","F","G","H","I","J","K","L","M",
                "N","O","P","Q","R","S","T","U","V","W","X","Y","Z">>
LowerChars == <<"a","b","c","d","e","f","g","h","i","j","k","l","m",
                "n","o","p","q","r","s","t","u","v","w","x","y","z">>
Digits == <<"0","1","2","3","4","5","6","7","8","9">>
Punct  == <<"\t", " ", ",", "-", ".">>

\* the place of a character in a table, 0 when it is not there
IndexIn(c, table) == IF \E i \in 1..Len(table) : table[i] = c
                     THEN CHOOSE i \in 1..Len(table) : table[i] = c
                     ELSE 0

SetMin(S) == CHOOSE x \in S : \A y \in S : x <= y
SetMax(S) == CHOOSE x \in S : \A y \in S : x >= y

\* the element of a one-element set: The({F(v) : v \in {e}}) is F(e), with e
\* evaluated once
The(S) == CHOOSE x \in S : TRUE

LowerChar(c) == IF IndexIn(c, UpperChars) > 0 THEN LowerChars[IndexIn(c, UpperChars)] ELSE c
UpperChar(c) == IF IndexIn(c, LowerChars) > 0 THEN UpperChars[IndexIn(c, LowerChars)] ELSE c

\* String.prototype.toLowerCase
toLowerCase(s) == [i \in 1..Len(s) |-> LowerChar(s[i])]

\* String.prototype.toUpperCase
toUpperCase(s) == [i \in 1..Len(s) |-> UpperChar(s[i])]

IsSpace(c) == c \in {" ", "\t"}

\* the positions of the characters of s that are not white space
Inked(s) == {i \in 1..Len(s) : ~IsSpace(s[i])}

\* String.prototype.trim
trim(s) == IF Inked(s) = {} THEN <<>> ELSE SubSeq(s, SetMin(Inked(s)), SetMax(Inked(s)))

\* String.prototype.includes
includes(hay, needle) ==
    \E i \in 0..(Len(hay) - Len(needle)) : SubSeq(hay, i + 1, i + Len(needle)) = needle

\* the positions of the separator in s
Seps(s, sep) == {i \in 1..Len(s) : s[i] = sep}

\* String.prototype.split on a one-character separator
RECURSIVE split(_, _)
split(s, sep) ==
    IF Seps(s, sep) = {} THEN <<s>>
    ELSE <<SubSeq(s, 1, SetMin(Seps(s, sep)) - 1)>>
         \o split(SubSeq(s, SetMin(Seps(s, sep)) + 1, Len(s)), sep)

\* .map((field) => field.trim().toLowerCase())
MapTrimLower(parts) == [i \in 1..Len(parts) |-> toLowerCase(trim(parts[i]))]

\* Array.prototype.includes
SeqHas(seq, x) == \E i \in 1..Len(seq) : seq[i] = x

----------------------------------------------------------------------------
(* The string literals of the source, as character sequences.              *)

S_true == <<"t","r","u","e">>
S_false == <<"f","a","l","s","e">>
S_all == <<"a","l","l">>
S_couplet == <<"c","o","u","p","l","e","t">>
S_translation == <<"t","r","a","n","s","l","a","t","i","o","n">>
S_explanation == <<"e","x","p","l","a","n","a","t","i","o","n">>
S_id == <<"i","d">>
S_random == <<"r","a","n","d","o","m">>
S_popular == <<"p","o","p","u","l","a","r">>
S_couplet_english == <<"c","o","u","p","l","e","t","_","e","n","g","l","i","s","h">>
S_couplet_hindi == <<"c","o","u","p","l","e","t","_","h","i","n","d","i">>
S_translation_hindi == <<"t","r","a","n","s","l","a","t","i","o","n","_","h","i","n","d","i">>
S_translation_english == <<"t","r","a","n","s","l","a","t","i","o","n","_","e","n","g","l","i","s","h">>
S_explanation_hindi == <<"e","x","p","l","a","n","a","t","i","o","n","_","h","i","n","d","i">>
S_explanation_english == <<"e","x","p","l","a","n","a","t","i","o","n","_","e","n","g","l","i","s","h">>
S_ASC == <<"A","S","C">>
S_DESC == <<"D","E","S","C">>

----------------------------------------------------------------------------
(* JavaScript values and numbers.                                          *)

\* a value of a request parameter: undefined, a boolean, a number, a string
Undef   == [t |-> "undef", b |-> FALSE, h |-> 0, s |-> <<>>]
Bool(x) == [t |-> "bool",  b |-> x,     h |-> 0, s |-> <<>>]
Num(k)  == [t |-> "num",   b |-> FALSE, h |-> 2 * k, s |-> <<>>]
Half(k) == [t |-> "num",   b |-> FALSE, h |-> k, s |-> <<>>]
Str(x)  == [t |-> "str",   b |-> FALSE, h |-> 0, s |-> x]

\* a number: NaN, or h half units
NaN       == [nan |-> TRUE,  h |-> 0]
Whole(k)  == [nan |-> FALSE, h |-> 2 * k]
Halves(k) == [nan |-> FALSE, h |-> k]

RECURSIVE DigitsValue(_)
DigitsValue(ds) == IF ds = <<>> THEN 0
                   ELSE 10 * DigitsValue(SubSeq(ds, 1, Len(ds) - 1))
                        + (IndexIn(ds[Len(ds)], Digits) - 1)

AllDigits(ds) == ds # <<>> /\ \A i \in 1..Len(ds) : IndexIn(ds[i], Digits) > 0

\* an unsigned literal: digits, digits.0 or digits.5 (numbers are carried in
\* half units); any other text is NaN
UnsignedLiteral(body, sign) ==
    IF AllDigits(body) THEN Halves(sign * 2 * DigitsValue(body))
    ELSE IF Len(body) > 2 /\ AllDigits(SubSeq(body, 1, Len(body) - 2))
            /\ SubSeq(body, Len(body) - 1, Len(body)) = <<".", "0">>
    THEN Halves(sign * 2 * DigitsValue(SubSeq(body, 1, Len(body) - 2)))
    ELSE IF Len(body) > 2 /\ AllDigits(SubSeq(body, 1, Len(body) - 2))
            /\ SubSeq(body, Len(body) - 1, Len(body)) = <<".", "5">>
    THEN Halves(sign * (2 * DigitsValue(SubSeq(body, 1, Len(body) - 2)) + 1))
    ELSE NaN

\* StringToNumber on a trimmed text: the empty text is 0
TrimmedToNumber(t) ==
    IF t = <<>> THEN Whole(0)
    ELSE IF t[1] = "-" THEN UnsignedLiteral(SubSeq(t, 2, Len(t)), -1)
    ELSE UnsignedLiteral(t, 1)

\* Number(value)
Number(v) ==
    CASE v.t = "undef" -> NaN
      [] v.t = "bool"  -> IF v.b THEN Whole(1) ELSE Whole(0)
      [] v.t = "num"   -> Halves(v.h)
      [] v.t = "str"   -> TrimmedToNumber(trim(v.s))

\* the truthiness of a value: !value is its negation
Truthy(v) ==
    CASE v.t = "undef" -> FALSE
      [] v.t = "bool"  -> v.b
      [] v.t = "num"   -> v.h # 0
      [] v.t = "str"   -> v.s # <<>>

\* the outcome of a call: a value returned, or an Error thrown
Returned(x) == [threw |-> FALSE, val |-> x]
Thrown      == [threw |-> TRUE,  val |-> <<>>]

\* a variant of toBool that compares with "true" where toBool throws
toBool_Permissive(value) ==
    IF value.t = "bool" THEN Returned(value.b)
    ELSE IF value.t = "str" /\ toLowerCase(trim(value.s)) \in {S_true, <<"1">>}
    THEN Returned(TRUE)
    ELSE IF value.t = "num" /\ value.h = 2 THEN Returned(TRUE)
    ELSE Returned(value.t = "str" /\ value.s = S_true)

\* utils.js toBool
toBool(value) ==
    IF value.t = "bool" THEN Returned(value.b)
    ELSE IF value.t = "str" /\ toLowerCase(trim(value.s)) \in {S_true, <<"1">>}
    THEN Returned(TRUE)
    ELSE IF value.t = "str" /\ toLowerCase(trim(value.s)) \in {S_false, <<"0">>}
    THEN Returned(FALSE)
    ELSE IF value.t = "num" /\ value.h = 2 THEN Returned(TRUE)
    ELSE IF value.t = "num" /\ value.h = 0 THEN Returned(FALSE)
    ELSE Thrown

----------------------------------------------------------------------------
(* Records of the dataset.  A record carries the fields the pipeline reads:*)
(* id, the six text fields, tags (the slugs of its Tag objects), popular.  *)

Record(id, ch, ce, th, te, eh, ee, tags, popular) ==
    [id |-> id, couplet_hindi |-> ch, couplet_english |-> ce,
     translation_hindi |-> th, translation_english |-> te,
     explanation_hindi |-> eh, explanation_english |-> ee,
     tags |-> tags, popular |-> popular]

\* item[field] for a text field of the record
Field(item, field) ==
    CASE field = "couplet_hindi"       -> item.couplet_hindi
      [] field = "couplet_english"     -> item.couplet_english
      [] field = "translation_hindi"   -> item.translation_hindi
      [] field = "translation_english" -> item.translation_english
      [] field = "explanation_hindi"   -> item.explanation_hindi
      [] field = "explanation_english" -> item.explanation_english

RECURSIVE FilterSeq(_, _)
FilterSeq(data, keep) ==
    IF data = <<>> THEN <<>>
    ELSE (IF Head(data) \in keep THEN <<Head(data)>> ELSE <<>>) \o FilterSeq(Tail(data), keep)

\* Array.prototype.filter, keeping the input order
Filter(data, keep) == The({FilterSeq(d, k) : d \in {data}, k \in {keep}})

Elems(data) == {data[i] : i \in 1..Len(data)}

----------------------------------------------------------------------------
(* Comparison of strings.                                                  *)

\* the UTF-16 code unit order of the characters of the model (the < of strings)
CodeUnit(c) ==
    IF IndexIn(c, Punct) > 0 THEN IndexIn(c, Punct)
    ELSE IF IndexIn(c, Digits) > 0 THEN 10 + IndexIn(c, Digits)
    ELSE IF IndexIn(c, UpperChars) > 0 THEN 30 + IndexIn(c, UpperChars)
    ELSE 60 + IndexIn(c, LowerChars)

\* the primary collation weight of a character: punctuation, digits, letters
\* (a letter and its capital share the weight)
Primary(c) ==
    IF IndexIn(c, Punct) > 0 THEN IndexIn(c, Punct)
    ELSE IF IndexIn(c, Digits) > 0 THEN 10 + IndexIn(c, Digits)
    ELSE 30 + IndexIn(LowerChar(c), LowerChars)

\* the tertiary weight: lower case before upper case
Tertiary(c) == IF IndexIn(c, UpperChars) > 0 THEN 1 ELSE 0

Weight(c, level) ==
    CASE level = "code"     -> CodeUnit(c)
      [] level = "primary"  -> Primary(c)
      [] level = "tertiary" -> Tertiary(c)

ShorterLen(x, y) == IF Len(x) < Len(y) THEN Len(x) ELSE Len(y)

\* the first position at which two strings differ in weight, 0 when none
FirstDiff(x, y, level) ==
    IF \E i \in 1..ShorterLen(x, y) : Weight(x[i], level) # Weight(y[i], level)
    THEN SetMin({i \in 1..ShorterLen(x, y) : Weight(x[i], level) # Weight(y[i], level)})
    ELSE 0

SignAt(x, y, level, i) ==
    IF i > 0 THEN (IF Weight(x[i], level) < Weight(y[i], level) THEN -1 ELSE 1)
    ELSE IF Len(x) < Len(y) THEN -1 ELSE IF Len(x) > Len(y) THEN 1 ELSE 0

\* the lexicographic comparison of two strings at a level of weights: -1, 0, 1
LexCompare(x, y, level) == SignAt(x, y, level, FirstDiff(x, y, level))

\* String.prototype.localeCompare: by the letters, then lower case before upper
\* case among strings that differ in case only
localeCompare(x, y) ==
    IF LexCompare(x, y, "primary") # 0 THEN LexCompare(x, y, "primary")
    ELSE LexCompare(x, y, "tertiary")

----------------------------------------------------------------------------
(* Array.prototype.sort: a stable sort under a comparator.  A comparator is*)
(* a record c; Compare(c, a, b) is the number its function returns.        *)

\* item[name] for a property name given as text: a text field, or undefined
\* (def = FALSE); id, tags and popular are read by name in the source
Prop(item, name) ==
    CASE name = S_couplet_hindi       -> [def |-> TRUE, s |-> item.couplet_hindi]
      [] name = S_couplet_english     -> [def |-> TRUE, s |-> item.couplet_english]
      [] name = S_translation_hindi   -> [def |-> TRUE, s |-> item.translation_hindi]
      [] name = S_translation_english -> [def |-> TRUE, s |-> item.translation_english]
      [] name = S_explanation_hindi   -> [def |-> TRUE, s |-> item.explanation_hindi]
      [] name = S_explanation_english -> [def |-> TRUE, s |-> item.explanation_english]
      [] OTHER                        -> [def |-> FALSE, s |-> <<>>]

\* aId - bId, in half units; NaN is read by the sort as 0
\* a variant of the id comparison with its operands exchanged
NumberDiff_Exchanged(aId, bId) == IF aId.nan \/ bId.nan THEN 0 ELSE bId.h - aId.h

NumberDiff(aId, bId) == IF aId.nan \/ bId.nan THEN 0 ELSE aId.h - bId.h

\* valA < valB: -1, valA > valB: 1, otherwise (also with undefined) 0
GenericSign(valA, valB) ==
    IF valA.def /\ valB.def THEN LexCompare(valA.s, valB.s, "code") ELSE 0

\* filters.js sortData: the comparator, under the normalized orderBy and order
\* (the "random" comparator is not a function of a and b: see sortData)
sortDataCompare(c, a, b) ==
    IF c.orderBy = S_couplet_english
    THEN (IF c.order = S_ASC THEN localeCompare(a.couplet_english, b.couplet_english)
                             ELSE localeCompare(b.couplet_english, a.couplet_english))
    ELSE IF c.orderBy = S_couplet_hindi
    THEN (IF c.order = S_ASC THEN localeCompare(a.couplet_hindi, b.couplet_hindi)
                             ELSE localeCompare(b.couplet_hindi, a.couplet_hindi))
    ELSE IF c.orderBy = S_popular
    THEN (IF a.popular = b.popular
          THEN (IF c.order = S_ASC THEN localeCompare(a.couplet_hindi, b.couplet_hindi)
                                   ELSE localeCompare(b.couplet_hindi, a.couplet_hindi))
          ELSE IF c.order = S_ASC THEN (IF a.popular THEN -1 ELSE 1)
                                  ELSE (IF a.popular THEN 1 ELSE -1))
    ELSE IF c.orderBy = S_id
    THEN (IF c.order = S_ASC THEN NumberDiff(Number(Str(a.id)), Number(Str(b.id)))
                             ELSE NumberDiff(Number(Str(b.id)), Number(Str(a.id))))
    ELSE IF GenericSign(Prop(a, c.orderBy), Prop(b, c.orderBy)) < 0
    THEN (IF c.order = S_DESC THEN 1 ELSE -1)
    ELSE IF GenericSign(Prop(a, c.orderBy), Prop(b, c.orderBy)) > 0
    THEN (IF c.order = S_DESC THEN -1 ELSE 1)
    ELSE 0

\* filters.js filterBySearch: whether a field of the item includes the text
MatchesIn(item, fieldsToSearch, text) ==
    \E i \in 1..Len(fieldsToSearch) :
        includes(toLowerCase(Field(item, fieldsToSearch[i])), text)

\* filters.js filterBySearch: the comparator of the final sort
searchCompare(c, a, b) ==
    IF MatchesIn(a, c.fields, c.text) /\ ~MatchesIn(b, c.fields, c.text) THEN -1
    ELSE IF ~MatchesIn(a, c.fields, c.text) /\ MatchesIn(b, c.fields, c.text) THEN 1
    ELSE 0

SortDataComparator(orderBy, order) ==
    [kind |-> "sortData", orderBy |-> orderBy, order |-> order, fields |-> <<>>, text |-> <<>>]
SearchComparator(fields, text) ==
    [kind |-> "search", orderBy |-> <<>>, order |-> <<>>, fields |-> fields, text |-> text]

Compare(c, a, b) ==
    IF c.kind = "search" THEN searchCompare(c, a, b) ELSE sortDataCompare(c, a, b)

\* the last place of a sorted sequence whose element does not compare greater
\* than x, 0 when there is none
PlaceFor(c, sorted, x) ==
    IF \E j \in 1..Len(sorted) : Compare(c, sorted[j], x) <= 0
    THEN SetMax({j \in 1..Len(sorted) : Compare(c, sorted[j], x) <= 0})
    ELSE 0

InsertAt(sorted, x, k) == SubSeq(sorted, 1, k) \o <<x>> \o SubSeq(sorted, k + 1, Len(sorted))

\* the insertion of x into a sorted sequence: equal elements keep their order
Insert(c, sorted, x) == InsertAt(sorted, x, PlaceFor(c, sorted, x))

RECURSIVE SortedSeq(_, _)
SortedSeq(c, data) ==
    IF Len(data) <= 1 THEN data
    ELSE The({Insert(c, sorted, data[Len(data)]) :
                 sorted \in {SortedSeq(c, SubSeq(data, 1, Len(data) - 1))}})

\* Array.prototype.sort(compareFn): stable
Sort(c, data) == The({SortedSeq(cmp, d) : cmp \in {c}, d \in {data}})

----------------------------------------------------------------------------
(* filters.js filterBySearch                                               *)

RECURSIVE NonEmpty(_)
NonEmpty(parts) ==
    IF parts = <<>> THEN <<>>
    ELSE (IF Len(Head(parts)) > 0 THEN <<Head(parts)>> ELSE <<>>) \o NonEmpty(Tail(parts))

MapTrim(parts) == [i \in 1..Len(parts) |-> trim(parts[i])]

\* searchTerms: split(" "), trim each, drop the empty ones
searchTerms(searchLower) == NonEmpty(MapTrim(split(searchLower, " ")))

AllFields == <<"couplet_hindi", "couplet_english", "translation_hindi",
               "translation_english", "explanation_hindi", "explanation_english">>

\* the fields of the names in searchWithinArray
FieldsOf(searchWithinArray) ==
    (IF SeqHas(searchWithinArray, S_couplet)
     THEN <<"couplet_hindi", "couplet_english">> ELSE <<>>)
    \o (IF SeqHas(searchWithinArray, S_translation)
        THEN <<"translation_hindi", "translation_english">> ELSE <<>>)
    \o (IF SeqHas(searchWithinArray, S_explanation)
        THEN <<"explanation_hindi", "explanation_english">> ELSE <<>>)

\* searchWithin === "all" || !searchWithin
SearchesAll(searchWithin) == searchWithin = Str(S_all) \/ ~Truthy(searchWithin)

fieldsToSearch(searchWithin) ==
    IF SearchesAll(searchWithin) THEN AllFields
    ELSE FieldsOf(MapTrimLower(split(searchWithin.s, ",")))

\* itemId = item.id || JSON.stringify(item): whether two items share the Map key
SameItemId(a, b) ==
    IF a.id # <<>> /\ b.id # <<>> THEN a.id = b.id
    ELSE IF a.id = <<>> /\ b.id = <<>> THEN a = b
    ELSE FALSE

\* uniqueItemsMap: the first item of each key, in insertion order
RECURSIVE UniqueSeq(_)
UniqueSeq(items) ==
    IF items = <<>> THEN <<>>
    ELSE IF \E j \in 1..(Len(items) - 1) : SameItemId(items[j], items[Len(items)])
    THEN UniqueSeq(SubSeq(items, 1, Len(items) - 1))
    ELSE UniqueSeq(SubSeq(items, 1, Len(items) - 1)) \o <<items[Len(items)]>>

\* a variant of the merge that keeps every item
UniqueItems_KeepAll(items) == items

UniqueItems(items) == The({UniqueSeq(i) : i \in {items}})

exactMatchResults(data, fields, searchLower) ==
    Filter(data, {item \in Elems(data) : MatchesIn(item, fields, searchLower)})

\* a variant of the term filter that runs whatever exactMatch is
partialMatchResults_Always(data, fields, terms, isExact) ==
    Filter(data, {item \in Elems(data) :
        \E k \in 1..Len(terms) : MatchesIn(item, fields, terms[k])})

partialMatchResults(data, fields, terms, isExact) ==
    IF ~isExact
    THEN Filter(data, {item \in Elems(data) :
             \E k \in 1..Len(terms) : MatchesIn(item, fields, terms[k])})
    ELSE <<>>

\* the merged unique results, sorted: exact matches first
mergedUniqueResults(data, fields, searchLower, terms, isExact) ==
    Sort(SearchComparator(fields, searchLower),
         UniqueItems(exactMatchResults(data, fields, searchLower)
                     \o partialMatchResults(data, fields, terms, isExact)))

SearchResults(data, searchWithin, searchLower, isExact) ==
    The({mergedUniqueResults(d, f, searchLower, t, isExact) :
            d \in {data}, f \in {fieldsToSearch(searchWithin)}, t \in {searchTerms(searchLower)}})

filterBySearch(data, search, exactMatch, searchWithin) ==
    IF ~Truthy(search) THEN Returned(data)
    ELSE IF search.t # "str" THEN Thrown            \* search.toLowerCase is not a function
    ELSE IF ~SearchesAll(searchWithin) /\ searchWithin.t # "str"
    THEN Thrown                                     \* searchWithin.split is not a function
    ELSE IF toBool(exactMatch).threw THEN Thrown
    ELSE Returned(The({SearchResults(data, searchWithin, searchLower, toBool(exactMatch).val) :
                          searchLower \in {toLowerCase(search.s)}}))

----------------------------------------------------------------------------
(* filters.js filterByTags, filterByPopularity, sortData                   *)

HasTagIn(post, tagsArray) ==
    \E k \in 1..Len(post.tags) : SeqHas(tagsArray, toLowerCase(post.tags[k]))

filterByTags(data, tags) ==
    IF ~Truthy(tags) THEN Returned(data)
    ELSE IF tags.t # "str" THEN Thrown              \* tags.split is not a function
    ELSE Returned(The({Filter(data, {post \in Elems(data) : HasTagIn(post, tagsArray)}) :
                          tagsArray \in {MapTrimLower(split(tags.s, ","))}}))

filterByPopularity(data, popular) ==
    IF toBool(popular).threw THEN Thrown
    ELSE IF toBool(popular).val = FALSE THEN Returned(data)
    ELSE Returned(Filter(data, {post \in Elems(data) :
                      toBool(Bool(post.popular)).val = toBool(popular).val}))

\* the outcome of sorting with the comparator Math.random() - 0.5: the order the
\* draws rnd (a rank per position) produce
Shuffle(data, rnd) ==
    [k \in 1..Len(data) |->
        data[CHOOSE i \in 1..Len(data) :
                Cardinality({j \in 1..Len(data) : rnd[j] < rnd[i]}) = k - 1]]

sortData(data, orderBy, order, rnd) ==
    IF orderBy.t # "str" \/ order.t # "str"
    THEN Thrown                        \* toLowerCase / toUpperCase is not a function
    ELSE IF toLowerCase(orderBy.s) = S_random THEN Returned(Shuffle(data, rnd))
    ELSE Returned(Sort(SortDataComparator(toLowerCase(orderBy.s), toUpperCase(order.s)), data))

----------------------------------------------------------------------------
(* filters.js paginateData                                                 *)

\* the default page size
DefaultLimit == 10

\* a variant of the limit in which -1 does not stand for the length
limitOrAll_Never(n, length) == n

\* if (limit === -1) limit = data.length
limitOrAll(n, length) == IF ~n.nan /\ n.h = -2 THEN Whole(length) ELSE n

\* if (limit <= 0 || isNaN(limit)) limit = 10
limitOrDefault(n) == IF n.nan \/ n.h <= 0 THEN Whole(DefaultLimit) ELSE n

limit(data, perPage) == limitOrDefault(limitOrAll(Number(perPage), Len(data)))

\* Number(page) || 1
numberOr1(n) == IF n.nan \/ n.h = 0 THEN Whole(1) ELSE n

\* Math.max(n, 1)
max1(n) == IF n.h > 2 THEN n ELSE Whole(1)

pageNumber(page) == max1(numberOr1(Number(page)))

\* a variant of start that is one page too far
start4_PageTooFar(pn, lim) == pn.h * lim.h

\* start = (pageNumber - 1) * limit, in quarter units: both factors are halves
start4(pn, lim) == (pn.h - 2) * lim.h

\* end = start + limit, in quarter units
end4(pn, lim) == start4(pn, lim) + 2 * lim.h

\* Math.ceil(total / limit)
totalPages(total, lim) == (2 * total + lim.h - 1) \div lim.h

Clamp(k, length) == IF k > length THEN length ELSE k

\* Array.prototype.slice(start, end), the bounds in quarter units and not
\* negative: slice truncates them and clamps them to the length
slice(data, s4, e4) ==
    SubSeq(data, Clamp(s4 \div 4, Len(data)) + 1, Clamp(e4 \div 4, Len(data)))

paginatedData(data, pn, lim) ==
    IF pn.h > 2 * totalPages(Len(data), lim) THEN <<>>
    ELSE slice(data, start4(pn, lim), end4(pn, lim))

\* a variant of the result that reports the full totals whatever the flag
ResultPage_FullTotals(couplets, total, pages, pn, lim, isPaginationEnabled) ==
    [couplets |-> couplets, total |-> total, totalPages |-> pages,
     page |-> pn, perPage |-> lim, pagination |-> isPaginationEnabled]

ResultPage(couplets, total, pages, pn, lim, isPaginationEnabled) ==
    [couplets   |-> couplets,
     total      |-> IF isPaginationEnabled THEN total ELSE Len(couplets),
     totalPages |-> IF isPaginationEnabled THEN pages ELSE 1,
     page       |-> pn,
     perPage    |-> lim,
     pagination |-> isPaginationEnabled]

paginateData(data, page, perPage, pagination) ==
    IF toBool(pagination).threw THEN Thrown
    ELSE Returned(ResultPage(paginatedData(data, pageNumber(page), limit(data, perPage)),
                             Len(data),
                             totalPages(Len(data), limit(data, perPage)),
                             pageNumber(page),
                             limit(data, perPage),
                             toBool(pagination).val))

----------------------------------------------------------------------------
(* data.js (the second half of src/src/api.js)                             *)

\* a variant of loadData that keeps the array it loaded first
loadData_Kept == IF arr # <<>> THEN arr ELSE file

\* loadData: reads and parses data/couplets.json anew at every call
loadData == file

\* a destructuring default: it applies to undefined only
Default(v, d) == IF v.t = "undef" THEN d ELSE v

\* the options of getData with their defaults
Options(o) ==
    [s            |-> Default(o.s, Str(<<>>)),
     exactMatch   |-> Default(o.exactMatch, Bool(FALSE)),
     searchWithin |-> Default(o.searchWithin, Str(S_all)),
     tags         |-> Default(o.tags, Str(<<>>)),
     popular      |-> Default(o.popular, Bool(FALSE)),
     orderBy      |-> Default(o.orderBy, Str(S_id)),
     order        |-> Default(o.order, Str(S_ASC)),
     page         |-> Default(o.page, Num(1)),
     perPage      |-> Default(o.perPage, Num(10)),
     pagination   |-> Default(o.pagination, Bool(TRUE))]

\* the stages of the pipeline: a stage that throws ends the call
Searched(o, data) == filterBySearch(data, o.s, o.exactMatch, o.searchWithin)
Tagged(o, r)      == IF r.threw THEN Thrown ELSE filterByTags(r.val, o.tags)
Populared(o, r)   == IF r.threw THEN Thrown ELSE filterByPopularity(r.val, o.popular)
Sorted(o, r, rnd) == IF r.threw THEN Thrown ELSE sortData(r.val, o.orderBy, o.order, rnd)
Paginated(o, r)   == IF r.threw THEN Thrown
                     ELSE paginateData(r.val, o.page, o.perPage, o.pagination)

\* the data after each stage, each computed once from the stage before
TaggedData(o, data)      == The({Tagged(o, r) : r \in {Searched(o, data)}})
PopularData(o, data)     == The({Populared(o, r) : r \in {TaggedData(o, data)}})
SortedData(o, data, rnd) == The({Sorted(o, r, rnd) : r \in {PopularData(o, data)}})

\* whether the array given to sortData is the loaded one: each filter returns
\* its input array when it has nothing to filter by, a new array otherwise
SameArray(o) == ~Truthy(o.s) /\ ~Truthy(o.tags) /\ toBool(o.popular) = Returned(FALSE)

\* the loaded array after the call: sortData sorts in place the array it is given
ArrayAfter(o, data, sorted) ==
    IF ~sorted.threw /\ SameArray(o) THEN sorted.val ELSE data

GetDataOutcome(o, data, sorted, result) ==
    [threw |-> result.threw, val |-> result.val, arr |-> ArrayAfter(o, data, sorted)]

\* the pipeline under the options o, defaults applied
Pipeline(o, data, rnd) ==
    The({The({GetDataOutcome(o, data, sorted, result) : result \in {Paginated(o, sorted)}}) :
            sorted \in {SortedData(o, data, rnd)}})

\* getData(options): the outcome of the call, and in arr the loaded array as the
\* call leaves it
getData(o, rnd) ==
    The({Pipeline(options, data, rnd) : options \in {Options(o)}, data \in {loadData}})

----------------------------------------------------------------------------
(* api.js handleRequest                                                    *)

Response(status, success, data) == [status |-> status, success |-> success, data |-> data]

AllowedOrderBy == {Str(S_id), Str(S_random), Str(S_popular),
                   Str(S_couplet_english), Str(S_couplet_hindi)}
AllowedOrder   == {Str(S_ASC), Str(S_DESC)}
allowedFields  == <<S_couplet, S_translation, S_explanation>>

\* the places of the invalidFields in searchWithinArray
invalidFields(searchWithinArray) ==
    {i \in 1..Len(searchWithinArray) : ~SeqHas(allowedFields, searchWithinArray[i])}

\* req.method === "POST" ? req.body : req.query
Params(req) == IF req.method = "POST" THEN req.body ELSE req.query

\* the response to a request that passed the validation
Fetched(got) ==
    IF got.threw THEN [res |-> Response(500, FALSE, <<>>), called |-> TRUE, arr |-> got.arr]
    ELSE [res |-> Response(200, TRUE, <<got.val>>), called |-> TRUE, arr |-> got.arr]

Rejected(status) == [res |-> Response(status, FALSE, <<>>), called |-> FALSE, arr |-> arr]

\* handleRequest: [res, called, arr]: the response, whether getData was called,
\* and the loaded array as the request leaves it
handleRequest(req, rnd) ==
    IF Truthy(Params(req).orderBy) /\ Params(req).orderBy \notin AllowedOrderBy
    THEN Rejected(400)
    ELSE IF Truthy(Params(req).order) /\ Params(req).order \notin AllowedOrder
    THEN Rejected(400)
    ELSE IF Truthy(Params(req).searchWithin) /\ Params(req).searchWithin.t # "str"
    THEN Rejected(500)                              \* searchWithin.split is not a function
    ELSE IF Truthy(Params(req).searchWithin)
            /\ invalidFields(MapTrimLower(split(Params(req).searchWithin.s, ","))) # {}
    THEN Rejected(400)
    ELSE Fetched(getData(Params(req), rnd))

----------------------------------------------------------------------------
(* The inputs of the model.                                                *)

\* four records: ids 2, 10, 1 and 01 (two ids of one numeric value), two equal
\* English couplets, Hindi couplets that are equal or differ in case only
R1 == Record(<<"2">>, <<"k","g">>, <<"A","b">>, <<>>, <<>>, <<>>, <<>>,
             <<<<"l","o","v","e">>>>, TRUE)
R2 == Record(<<"1","0">>, <<"g">>, <<"b">>, <<>>, <<"a"," ","b">>, <<>>, <<>>,
             <<<<"L","i","f","e">>>>, FALSE)
R3 == Record(<<"1">>, <<"k","g">>, <<"b">>, <<>>, <<>>, <<>>, <<"A">>,
             <<>>, TRUE)
R4 == Record(<<"0","1">>, <<"K","g">>, <<"c">>, <<"b">>, <<>>, <<"a","\t","b">>, <<>>,
             <<<<"l","o","v","e">>, <<"l","i","f","e">>>>, FALSE)
Pool == {R1, R2, R3, R4}

\* the sequences of n distinct records of the pool
Arrangements(n) == {b \in [1..n -> Pool] : \A i, j \in 1..n : i # j => b[i] # b[j]}

\* the input collections: the records of a collection have distinct ids
Collections == UNION {Arrangements(n) : n \in 0..MaxRecords}

\* the decimal digits of a natural number
RECURSIVE DigitsOf(_)
DigitsOf(n) == IF n < 10 THEN <<Digits[n + 1]>>
               ELSE DigitsOf(n \div 10) \o <<Digits[(n % 10) + 1]>>

\* a dataset of n records with the ids 1..n, in that order
NumberedRecord(i) == Record(DigitsOf(i), <<"k">>, <<"c">>, <<>>, <<>>, <<>>, <<>>, <<>>, FALSE)
NumberedData(n)   == [i \in 1..n |-> NumberedRecord(i)]

\* the draws of the random comparator: a rank per position
Draws(n) == {d \in [1..n -> 1..n] : \A i, j \in 1..n : i # j => d[i] # d[j]}
Identity(n) == [i \in 1..n |-> i]

PageValues == {Undef, Num(1), Num(2), Num(3), Num(0), Num(-1), Half(3), Half(5),
               Str(<<"2">>), Str(<<"1",".","5">>), Str(<<" ","3"," ">>), Str(<<"x">>)}
PerPageValues == {Undef, Num(-1), Num(0), Num(-2), Num(1), Num(2), Num(3), Num(10), Half(5),
                  Str(<<"-","1">>), Str(<<"4">>), Str(<<"x">>), Str(<<>>), Bool(TRUE)}
BoolValues == {Bool(TRUE), Bool(FALSE), Str(S_true), Str(S_false), Str(<<" ","F","A","L","S","E"," ">>),
               Str(<<"1">>), Str(<<"0">>), Num(1), Num(0),
               Undef, Str(<<>>), Str(<<"y","e","s">>), Num(5)}

SearchValues == {Undef, Str(<<>>), Str(<<"a"," ","b">>), Str(<<"A","B">>),
                 Str(<<"\t","b"," ","a">>), Str(<<" ">>), Str(<<"c">>),
                 Str(<<"b"," "," ","k","g">>), Str(<<"a","\t","b">>),
                 Str(<<"x"," ","a","\t","b">>), Num(5)}
ExactMatchValues == {Bool(FALSE), Bool(TRUE), Str(S_true), Str(<<"0">>), Undef,
                     Str(<<"y","e","s">>)}
SearchWithinValues == {Undef, Str(<<>>), Str(S_all), Str(S_couplet), Str(S_translation),
                       Str(<<" ","C","o","u","p","l","e","t"," ",","," ","e","x","p","l","a","n","a","t","i","o","n">>),
                       Str(<<"e","x","p","l","a","n","a","t","i","o","n",",","t","r","a","n","s","l","a","t","i","o","n">>)}

OrderByValues == {Str(S_id), Str(<<"I","D">>), Str(S_random), Str(S_popular),
                  Str(S_couplet_english), Str(S_couplet_hindi), Str(S_translation_english),
                  Str(<<>>), Num(5)}
OrderValues == {Str(S_ASC), Str(S_DESC), Str(<<"a","s","c">>), Str(<<>>)}

\* the requests of the server
NoParams == [s |-> Undef, exactMatch |-> Undef, searchWithin |-> Undef, tags |-> Undef,
             popular |-> Undef, orderBy |-> Undef, order |-> Undef, page |-> Undef,
             perPage |-> Undef, pagination |-> Undef]
Get(params)  == [method |-> "GET",  query |-> params,   body |-> NoParams]
Post(params) == [method |-> "POST", query |-> NoParams, body |-> params]

Requests ==
    {Get([NoParams EXCEPT !.orderBy = v]) :
        v \in {Undef, Str(S_id), Str(S_random), Str(S_popular), Str(S_couplet_english),
               Str(S_couplet_hindi), Str(<<>>), Str(<<"s","l","u","g">>)}}
    \cup {Get([NoParams EXCEPT !.order = v]) :
        v \in {Str(S_DESC), Str(<<>>), Str(<<"a","s","c">>)}}
    \cup {Get([NoParams EXCEPT !.s = Str(<<"a"," ","b">>), !.searchWithin = v]) :
        v \in {Undef, Str(<<>>), Str(S_all), Str(<<"c","o","u","p","l","e","t",",","t","r","a","n","s","l","a","t","i","o","n">>),
               Str(<<" ","C","o","u","p","l","e","t"," ">>), Str(<<"c","o","u","p","l","e","t",",","f","o","o">>)}}
    \cup {Get([NoParams EXCEPT !.orderBy = Str(S_couplet_english), !.order = v]) :
        v \in {Str(S_DESC), Str(<<>>)}}
    \cup {Get([NoParams EXCEPT !.popular = Str(S_true)]),
          Get([NoParams EXCEPT !.tags = Str(<<"L","o","v","e",","," ","x">>)]),
          Get([NoParams EXCEPT !.page = Str(<<"2">>), !.perPage = Str(<<"2">>)]),
          Get([NoParams EXCEPT !.pagination = Str(S_false), !.perPage = Str(<<"2">>)]),
          Get([NoParams EXCEPT !.pagination = Str(<<>>)]),
          Post([NoParams EXCEPT !.orderBy = Num(0)]),
          Post([NoParams EXCEPT !.searchWithin = Num(3)]),
          Post([NoParams EXCEPT !.order = Str(S_DESC), !.exactMatch = Bool(TRUE),
                                !.s = Str(<<"b">>)])}

\* the dataset files of the server
Files == {<<R1, R2, R3>>, <<R4, R3, R2>>}

----------------------------------------------------------------------------
(* The specifications.                                                     *)

NoPrev == [set |-> FALSE, opts |-> <<>>, out |-> <<>>, between |-> FALSE]
NoRet  == [threw |-> FALSE, val |-> <<>>]

\* the server: requests are handled one at a time, each to completion
Init ==
    /\ file \in Files
    /\ arr = <<>>
    /\ op = "none"
    /\ args = <<>>
    /\ ret = NoRet
    /\ invoked = FALSE
    /\ prev = NoPrev

\* prev after a request: the call of getData just made, or the one remembered
\* before, with between set once a call with other options has followed it
Remembered(req, done) ==
    {[prev EXCEPT !.between = prev.between \/ (prev.set /\ done.called /\ Params(req) # prev.opts)]}
    \cup (IF done.called
          THEN {[set |-> TRUE, opts |-> Params(req), out |-> done.res, between |-> FALSE]}
          ELSE {})

\* a request is handled; the step may remember its call of getData in prev
HandleRequest(req, rnd) ==
    \E done \in {handleRequest(req, rnd)} :
        /\ op' = "handleRequest"
        /\ args' = req
        /\ ret' = done.res
        /\ invoked' = done.called
        /\ arr' = done.arr
        /\ prev' \in Remembered(req, done)
        /\ UNCHANGED file

\* whether orderBy selects the random comparator
IsRandom(orderBy) == orderBy.t = "str" /\ toLowerCase(orderBy.s) = S_random

\* the draws a call of sortData makes: none matter unless the comparator is random
DrawsFor(orderBy, n) == IF IsRandom(orderBy) THEN Draws(n) ELSE {Identity(n)}

Next == \E req \in Requests :
          \E rnd \in DrawsFor(Default(Params(req).orderBy, Str(S_id)), Len(file)) :
            HandleRequest(req, rnd)

Spec == Init /\ [][Next]_vars

\* paginateData applied to every input of the bounded sets
InitPaginate ==
    /\ file = <<>> /\ arr = <<>> /\ invoked = FALSE /\ prev = NoPrev
    /\ op = "none"
    /\ ret = NoRet
    /\ args \in [data : {NumberedData(n) : n \in 0..MaxTotal}, page : PageValues,
                 perPage : PerPageValues, pagination : BoolValues]

PaginateData ==
    /\ op = "none"
    /\ op' = "paginateData"
    /\ ret' = paginateData(args.data, args.page, args.perPage, args.pagination)
    /\ UNCHANGED <<file, arr, args, invoked, prev>>

NextPaginate == PaginateData

SpecPaginate == InitPaginate /\ [][NextPaginate]_vars

\* filterBySearch applied to every input of the bounded sets
InitSearch ==
    /\ file = <<>> /\ arr = <<>> /\ invoked = FALSE /\ prev = NoPrev
    /\ op = "none"
    /\ ret = NoRet
    /\ args \in [data : Collections, search : SearchValues,
                 exactMatch : ExactMatchValues, searchWithin : SearchWithinValues]

FilterBySearch ==
    /\ op = "none"
    /\ op' = "filterBySearch"
    /\ ret' = filterBySearch(args.data, args.search, args.exactMatch, args.searchWithin)
    /\ UNCHANGED <<file, arr, args, invoked, prev>>

NextSearch == FilterBySearch

SpecSearch == InitSearch /\ [][NextSearch]_vars

\* sortData applied to a fresh copy of a collection and, when its comparator is
\* not the random one, a second time to another fresh copy with the same
\* orderBy and any order; prev is the first call when the second is made
InitSort ==
    /\ file \in Collections
    /\ arr = <<>> /\ invoked = FALSE /\ prev = NoPrev
    /\ op = "none"
    /\ ret = NoRet
    /\ args = <<>>

SortData(orderBy, order, rnd) ==
    /\ \/ op = "none"
       \/ op = "sortData" /\ ~prev.set /\ orderBy = args.orderBy /\ ~IsRandom(orderBy)
    /\ op' = "sortData"
    /\ args' = [data |-> file, orderBy |-> orderBy, order |-> order]
    /\ ret' = sortData(file, orderBy, order, rnd)
    /\ prev' = IF op = "sortData"
               THEN [set |-> TRUE, opts |-> args, out |-> ret, between |-> FALSE] ELSE NoPrev
    /\ UNCHANGED <<file, arr, invoked>>

NextSort == \E orderBy \in OrderByValues : \E order \in OrderValues :
              \E rnd \in DrawsFor(orderBy, Len(file)) :
                SortData(orderBy, order, rnd)

SpecSort == InitSort /\ [][NextSort]_vars

----------------------------------------------------------------------------
(* The claims about paginateData (SpecPaginate).                           *)

\* paginateData has returned a result page
PageReturned == op = "paginateData" /\ ~ret.threw

\* the page number a page value stands for, in half units:
\* max(numeric(page) or 1, 1)
ClaimedPage2(page) ==
    IF Number(page).nan \/ Number(page).h <= 2 THEN 2 ELSE Number(page).h

\* Math.ceil(n / size), size in half units
CeilDiv(n, size2) == (2 * n + size2 - 1) \div size2

\* the 0-based positions i of a collection of n records with lo <= i < hi, the
\* bounds in quarter units
PositionsIn(n, lo4, hi4) == {i \in 0..(n - 1) : lo4 <= 4 * i /\ 4 * i < hi4}

\* the records at a set of consecutive positions, in order
AtPositions(data, idx) == [k \in 1..Cardinality(idx) |-> data[SetMin(idx) + k]]

\* the window [(p-1)*size, (p-1)*size + size) of C1, in quarter units
WindowLo4(p2, size2) == (p2 - 2) * size2
WindowHi4(p2, size2) == (p2 - 2) * size2 + 2 * size2

\* C1 as stated: with pagination enabled the couplets are exactly the records
\* at the positions i with (p-1)*size <= i < (p-1)*size + size, and none when p
\* exceeds totalPages; total is n and totalPages is ceil(n/size).
C1_AsStated ==
    (PageReturned /\ ret.val.pagination) =>
        /\ ret.val.total = Len(args.data)
        /\ ret.val.totalPages = CeilDiv(Len(args.data), ret.val.perPage.h)
        /\ ret.val.couplets =
             IF ClaimedPage2(args.page) > 2 * CeilDiv(Len(args.data), ret.val.perPage.h)
             THEN <<>>
             ELSE AtPositions(args.data,
                      PositionsIn(Len(args.data),
                                  WindowLo4(ClaimedPage2(args.page), ret.val.perPage.h),
                                  WindowHi4(ClaimedPage2(args.page), ret.val.perPage.h)))

\* C1 amended: with pagination enabled the couplets are exactly the records at
\* the positions i with trunc((p-1)*size) <= i < trunc((p-1)*size + size), and
\* none when p exceeds totalPages; total is n and totalPages is ceil(n/size).
C1_TruncatedWindow ==
    (PageReturned /\ ret.val.pagination) =>
        /\ ret.val.total = Len(args.data)
        /\ ret.val.totalPages = CeilDiv(Len(args.data), ret.val.perPage.h)
        /\ ret.val.couplets =
             IF ClaimedPage2(args.page) > 2 * CeilDiv(Len(args.data), ret.val.perPage.h)
             THEN <<>>
             ELSE AtPositions(args.data,
                      PositionsIn(Len(args.data),
                          4 * (WindowLo4(ClaimedPage2(args.page), ret.val.perPage.h) \div 4),
                          4 * (WindowHi4(ClaimedPage2(args.page), ret.val.perPage.h) \div 4)))

\* page 1.5 of size 3 over at least 5 records: the records at positions 1..3
C1_Witness ==
    /\ PageReturned /\ ret.val.pagination
    /\ args.page = Half(3) /\ ret.val.perPage = Whole(3) /\ Len(args.data) >= 5
    /\ ret.val.couplets = SubSeq(args.data, 2, 4)

\* the page size a perPage value stands for by C2, but for perPage == -1
ClaimedSize(perPage) ==
    IF Number(perPage).nan \/ Number(perPage).h <= 0 THEN Whole(10) ELSE Number(perPage)

IsMinusOne(perPage) == ~Number(perPage).nan /\ Number(perPage).h = -2

\* C2 as stated: the reported perPage is the record count when perPage == -1
\* (the empty collection included), 10 when perPage <= 0 or is not a number,
\* and perPage otherwise.
C2_AsStated ==
    PageReturned =>
        ret.val.perPage = IF IsMinusOne(args.perPage) THEN Whole(Len(args.data))
                          ELSE ClaimedSize(args.perPage)

\* C2 amended: the reported perPage is the record count when perPage == -1 and
\* the collection is not empty (page 1 then holds every record), 10 when
\* perPage == -1 and the collection is empty, 10 when perPage <= 0 or is not a
\* number, and perPage otherwise.
C2_EffectiveSize ==
    PageReturned =>
        /\ ret.val.perPage = IF IsMinusOne(args.perPage) /\ Len(args.data) > 0
                             THEN Whole(Len(args.data))
                             ELSE ClaimedSize(args.perPage)
        /\ (IsMinusOne(args.perPage) /\ ClaimedPage2(args.page) = 2)
               => ret.val.couplets = args.data

\* perPage -1 over the empty collection: the page size reported is 10
C2_Witness ==
    /\ PageReturned /\ IsMinusOne(args.perPage) /\ Len(args.data) = 0
    /\ ret.val.perPage = Whole(10)

\* C3 as stated: with pagination disabled the couplets are the full input
\* collection, whatever page and perPage are.
C3_AsStated ==
    (PageReturned /\ ~ret.val.pagination) => ret.val.couplets = args.data

\* C4: with pagination disabled totalPages is 1 and total is the length of the
\* couplets returned.
C4_DisabledTotals ==
    (PageReturned /\ ~ret.val.pagination) =>
        /\ ret.val.totalPages = 1
        /\ ret.val.total = Len(ret.val.couplets)

\* pagination disabled, fewer couplets returned than records given
C4_Witness ==
    /\ PageReturned /\ ~ret.val.pagination
    /\ Len(ret.val.couplets) > 0 /\ Len(ret.val.couplets) < Len(args.data)
    /\ ret.val.total = Len(ret.val.couplets)

\* the representations of true and of false among the inputs
TrueValues  == {Bool(TRUE), Str(S_true), Str(<<"1">>), Num(1)}
FalseValues == {Bool(FALSE), Str(S_false), Str(<<" ","F","A","L","S","E"," ">>),
                Str(<<"0">>), Num(0)}

\* C9 as stated: paginateData never throws because of its pagination argument;
\* a value that is no boolean representation yields pagination disabled.
C9_AsStated ==
    op = "paginateData" =>
        /\ ~ret.threw
        /\ args.pagination \notin TrueValues => ~ret.val.pagination

\* C9 amended: paginateData throws exactly when its pagination argument is no
\* boolean representation (absent, the empty string, any other token or number);
\* otherwise it returns a result page whose flag is the value represented.
C9_ThrowsOnOthers ==
    op = "paginateData" =>
        /\ ret.threw <=> args.pagination \notin (TrueValues \cup FalseValues)
        /\ ~ret.threw => (ret.val.pagination <=> args.pagination \in TrueValues)

\* the empty string as pagination: the call throws
C9_Witness ==
    op = "paginateData" /\ args.pagination = Str(<<>>) /\ ret.threw

----------------------------------------------------------------------------
(* The claims about filterBySearch (SpecSearch).                           *)

\* filterBySearch has returned for a non-empty search text
SearchReturned ==
    op = "filterBySearch" /\ ~ret.threw /\ args.search.t = "str" /\ args.search.s # <<>>

\* the maximal runs of characters of s that are not in seps
Runs(s, seps) ==
    {SubSeq(s, p[1], p[2]) :
        p \in {q \in (1..Len(s)) \X (1..Len(s)) :
                 /\ q[1] <= q[2]
                 /\ \A k \in q[1]..q[2] : s[k] \notin seps
                 /\ q[1] = 1 \/ s[q[1] - 1] \in seps
                 /\ q[2] = Len(s) \/ s[q[2] + 1] \in seps}}

\* the terms of a search text split at white space
WhitespaceTerms(s) == Runs(s, {" ", "\t"})

\* the terms of a search text split at its space characters, each one trimmed
SpaceTerms(s) == {trim(r) : r \in Runs(s, {" "})} \ {<<>>}

\* the fields a search scope stands for
ScopeNames(searchWithin) ==
    IF searchWithin \in {Undef, Str(<<>>), Str(S_all)}
    THEN {S_couplet, S_translation, S_explanation}
    ELSE {n \in {S_couplet, S_translation, S_explanation} :
             \E r \in Runs(searchWithin.s, {","}) : toLowerCase(trim(r)) = n}

ScopeFields(searchWithin) ==
    (IF S_couplet \in ScopeNames(searchWithin)
     THEN {"couplet_hindi", "couplet_english"} ELSE {})
    \cup (IF S_translation \in ScopeNames(searchWithin)
          THEN {"translation_hindi", "translation_english"} ELSE {})
    \cup (IF S_explanation \in ScopeNames(searchWithin)
          THEN {"explanation_hindi", "explanation_english"} ELSE {})

\* text occurs in field, letter case ignored
ContainsText(field, text) ==
    \E i \in 0..(Len(field) - Len(text)) :
        \A k \in 1..Len(text) : LowerChar(field[i + k]) = LowerChar(text[k])

\* one of the fields of the record contains the text
RecordHas(item, fields, text) ==
    \E f \in fields : ContainsText(Field(item, f), text)

RecordHasAny(item, fields, terms) ==
    \E t \in terms : RecordHas(item, fields, t)

\* the values of exactMatch that stand for true and for false
ExactTrue  == {Bool(TRUE), Str(S_true)}
ExactFalse == {Bool(FALSE), Str(<<"0">>)}

\* every record of found has the whole text or one of the terms, and the whole
\* text when exactMatch is true
AllMatch(found, fields, text, terms, exactMatch) ==
    \A k \in 1..Len(found) :
        /\ RecordHas(found[k], fields, text) \/ RecordHasAny(found[k], fields, terms)
        /\ exactMatch \in ExactTrue => RecordHas(found[k], fields, text)

\* C5: every record filterBySearch returns for a non-empty search text has, in
\* a searched field and letter case ignored, the whole text or a term of the
\* text split at white space; with exactMatch true it has the whole text.
C5_ReturnedMatch ==
    SearchReturned =>
        \A fields \in {ScopeFields(args.searchWithin)} :
            \A terms \in {WhitespaceTerms(args.search.s)} :
                AllMatch(ret.val, fields, args.search.s, terms, args.exactMatch)

\* a record is returned that has a term of the text and not the whole text
TermOnlyReturned(found, fields, text, terms) ==
    \E k \in 1..Len(found) :
        ~RecordHas(found[k], fields, text) /\ RecordHasAny(found[k], fields, terms)

\* "a b" returns a record for a term only next to a record with the whole text
C5_Witness ==
    /\ SearchReturned /\ args.exactMatch \in ExactFalse
    /\ args.search.s = <<"a", " ", "b">>
    /\ TermOnlyReturned(ret.val, ScopeFields(args.searchWithin), args.search.s,
                        WhitespaceTerms(args.search.s))
    /\ \E k \in 1..Len(ret.val) :
          RecordHas(ret.val[k], ScopeFields(args.searchWithin), args.search.s)

\* the records of data in a set, in the order of data
Kept(data, keep) == LET IsKept(x) == x \in keep IN SelectSeq(data, IsKept)

\* the records of data that have the whole search text
WholeMatches(data, fields, text) ==
    {data[i] : i \in {j \in 1..Len(data) : RecordHas(data[j], fields, text)}}

\* the records of data that have a term and not the whole text; none when
\* exactMatch is true
TermOnlyMatches(data, fields, text, terms, exactMatch) ==
    IF exactMatch \in ExactTrue THEN {}
    ELSE {data[i] : i \in {j \in 1..Len(data) :
              /\ RecordHasAny(data[j], fields, terms)
              /\ ~RecordHas(data[j], fields, text)}}

\* the whole-text matches in input order, then the term-only matches in input
\* order
TieredMatches(data, fields, text, terms, exactMatch) ==
    Kept(data, WholeMatches(data, fields, text))
    \o Kept(data, TermOnlyMatches(data, fields, text, terms, exactMatch))

\* C10 as stated, the terms those of the text split at white space: the result
\* is the whole-text matches in input order followed by the term-only matches
\* in input order, each once.
C10_AsStated ==
    SearchReturned =>
        \A fields \in {ScopeFields(args.searchWithin)} :
            \A terms \in {WhitespaceTerms(args.search.s)} :
                ret.val = TieredMatches(args.data, fields, args.search.s, terms,
                                        args.exactMatch)

\* C10 amended: the terms are those of the text split at its space characters
\* only, each trimmed; the result is the whole-text matches in input order
\* followed by the term-only matches in input order, each once.
C10_SpaceTerms ==
    SearchReturned =>
        \A fields \in {ScopeFields(args.searchWithin)} :
            \A terms \in {SpaceTerms(args.search.s)} :
                ret.val = TieredMatches(args.data, fields, args.search.s, terms,
                                        args.exactMatch)

\* "a b" over R1, R2, R3: R2 has the whole text and moves before R1 and R3
C10_Witness ==
    /\ SearchReturned /\ args.exactMatch \in ExactFalse
    /\ args.search.s = <<"a", " ", "b">>
    /\ args.data = <<R1, R2, R3>>
    /\ args.searchWithin = Undef
    /\ ret.val = <<R2, R1, R3>>

----------------------------------------------------------------------------
(* The claims about sortData (SpecSort).                                   *)

\* the number an id of the pool converts to
IdValue(item) ==
    CASE item = R1 -> 2
      [] item = R2 -> 10
      [] item = R3 -> 1
      [] item = R4 -> 1

Reverse(s) == [i \in 1..Len(s) |-> s[Len(s) + 1 - i]]

\* sortData has returned for orderBy "id" and the given order
SortedById(order) ==
    /\ op = "sortData" /\ ~ret.threw
    /\ args.orderBy = Str(S_id) /\ args.order = Str(order)

\* the call before was sortData by "id", ascending, of the same input
AfterAscending ==
    /\ prev.set /\ ~prev.out.threw
    /\ prev.opts.orderBy = Str(S_id) /\ prev.opts.order = Str(S_ASC)
    /\ prev.opts.data = args.data

\* the ascending result: a permutation of the input, the ids not decreasing
AscendingById ==
    SortedById(S_ASC) =>
        /\ Len(ret.val) = Len(args.data)
        /\ \A x \in Pool : Cardinality({i \in 1..Len(ret.val) : ret.val[i] = x})
                           = Cardinality({i \in 1..Len(args.data) : args.data[i] = x})
        /\ \A i, j \in 1..Len(ret.val) : i < j => IdValue(ret.val[i]) <= IdValue(ret.val[j])

DistinctIdValues(data) ==
    \A i, j \in 1..Len(data) : i # j => IdValue(data[i]) # IdValue(data[j])

\* C6 as stated: ascending by id is a permutation with non-decreasing numeric
\* ids, and descending on the same input is exactly its reverse.
C6_AsStated ==
    /\ AscendingById
    /\ (SortedById(S_DESC) /\ AfterAscending) => ret.val = Reverse(prev.out.val)

\* C6 amended: ascending by id is a permutation with non-decreasing numeric
\* ids; descending on the same input is exactly its reverse when the ids
\* convert to pairwise distinct numbers.
C6_DistinctNumbers ==
    /\ AscendingById
    /\ (SortedById(S_DESC) /\ AfterAscending /\ DistinctIdValues(args.data))
           => ret.val = Reverse(prev.out.val)

\* ids 2, 10, 1: ascending 1, 2, 10, then descending 10, 2, 1
C6_Witness ==
    /\ SortedById(S_DESC) /\ AfterAscending
    /\ args.data = <<R1, R2, R3>>
    /\ prev.out.val = <<R3, R1, R2>>
    /\ ret.val = <<R2, R1, R3>>

----------------------------------------------------------------------------
(* The claims about handleRequest and getData (Spec).                      *)

\* the tokens of a searchWithin text
Tokens(searchWithin) == {toLowerCase(trim(r)) : r \in Runs(searchWithin.s, {","})}

\* a parameter of the request is given and is outside its accepted values
InvalidOrderBy(p) == p.orderBy # Undef /\ p.orderBy \notin AllowedOrderBy
InvalidOrder(p)   == p.order # Undef /\ p.order \notin AllowedOrder
InvalidScope(p)   ==
    /\ p.searchWithin.t = "str"
    /\ Tokens(p.searchWithin) \ {S_couplet, S_translation, S_explanation} # {}

\* every validated parameter is absent or accepted
AllValid(p) ==
    /\ p.orderBy = Undef \/ p.orderBy \in AllowedOrderBy
    /\ p.order = Undef \/ p.order \in AllowedOrder
    /\ \/ p.searchWithin = Undef
       \/ /\ p.searchWithin.t = "str"
          /\ Tokens(p.searchWithin) \subseteq {S_couplet, S_translation, S_explanation}

\* C7 as stated: a request with an orderBy, an order or a searchWithin token
\* outside the accepted values is answered 400 with success false and getData
\* is not invoked; a request with valid values only reaches getData.
C7_AsStated ==
    op = "handleRequest" =>
        /\ (InvalidOrderBy(Params(args)) \/ InvalidOrder(Params(args))
              \/ InvalidScope(Params(args)))
               => (ret.status = 400 /\ ~ret.success /\ ~invoked)
        /\ AllValid(Params(args)) => invoked

\* C8: a call of getData with the options of a remembered earlier call, orderBy
\* not "random", returns what the earlier call returned, whatever calls were
\* made in between.
C8_SameOptionsSameResult ==
    (/\ op = "handleRequest" /\ invoked /\ prev.set
     /\ prev.opts = Params(args)
     /\ ~IsRandom(Default(Params(args).orderBy, Str(S_id))))
        => ret = prev.out

\* a call repeated after calls with other options, answered alike
C8_Witness ==
    /\ op = "handleRequest" /\ invoked
    /\ prev.set /\ prev.between
    /\ prev.opts = Params(args)
    /\ ~IsRandom(Default(Params(args).orderBy, Str(S_id)))
    /\ ret.status = 200
    /\ ret = prev.out

============================================================================
